---- MODULE Spec2Model ----
(***************************************************************************)
(* Array-based min-heap of src/myassignment_heap_answer.py.                *)
(*                                                                         *)
(* The heap stores Python strings and only ever compares them with < and   *)
(* <=, a total order.  An element is modelled by its rank in that order,   *)
(* an integer of Values; equal ranks are equal strings (duplicates).       *)
(* Python lists are 0-based, TLA+ sequences 1-based: the operators below   *)
(* keep the source's 0-based indices and read list element i as h[i + 1].  *)
(* An Optional[str] result is a sequence of length <= 1: None is << >>,    *)
(* the string v is << v >>.                                                *)
(***************************************************************************)
EXTENDS Integers, Sequences, FiniteSets, Bags, TLC

\* Bounds of the model: number of add calls in a run, number of distinct strings.
MaxAdds == 6
MaxVal == 3

Values == 1..MaxVal

VARIABLES
    a,        \* self.a, the underlying list
    added,    \* history: bag of every value passed to add
    removed,  \* history: bag of every value returned by a successful remove
    out,      \* history: values returned by the successful removes since the last add, in order
    peeked,   \* history: the last two results of peek since the last add or remove
    last      \* the most recent public call: its name, argument, result and what it did

vars == <<a, added, removed, out, peeked, last>>

None == << >>
Some(v) == << v >>

\* ---------- index helpers (source lines 12-26) ----------

left_child(p) == 2 * p + 1

right_child(p) == 2 * (p + 1)

\* Mutant: the parent formula of a 1-based heap.
parent_one_based(child) == child \div 2

\* Mutant: the node just before the child is taken for its parent.
parent_previous(child) == child - 1

parent(child) == (child - 1) \div 2

\* Mutant: the temporary is forgotten, so the first value is lost and the second duplicated.
swap_no_temp(heap_array, i, j) ==
    IF i # j
    THEN [heap_array EXCEPT ![i + 1] = heap_array[j + 1]]
    ELSE heap_array

swap(heap_array, i, j) ==
    IF i # j
    THEN LET temp == heap_array[i + 1]
             h1 == [heap_array EXCEPT ![i + 1] = heap_array[j + 1]]
         IN  [h1 EXCEPT ![j + 1] = temp]
    ELSE heap_array

\* Indices assigned by swap(heap_array, i, j).
swap_writes(i, j) == IF i # j THEN {i, j} ELSE {}

\* ---------- MinHeap ----------

is_empty(h) == Len(h) = 0

_is_valid_heap(h) ==
    LET n == Len(h)
    IN  \A i \in 0..(n - 1) :
            LET l == left_child(i)
                r == right_child(i)
            IN  /\ ~(l < n /\ ~(h[i + 1] <= h[l + 1]))
                /\ ~(r < n /\ ~(h[i + 1] <= h[r + 1]))

\* One loop iteration, or one statement that subscripts the list, as the call ran
\* it: the function, the list h at that moment, the node index i, the index the
\* node is at afterwards (i itself when nothing moved), the arguments passed to
\* parent() and the indices used to subscript the list.
Step(fn, h, i, to, pargs, idx) ==
    [fn |-> fn, h |-> h, i |-> i, to |-> to, pargs |-> pargs, idx |-> idx]

\* One pass of a sift: the list it leaves, the number of swaps, the indices
\* assigned, and its loop iterations in order.
Pass(h, swaps, writes, trace) ==
    [a |-> h, swaps |-> swaps, writes |-> writes, trace |-> trace]

\* Mutant: the loop body runs once (an `if` in place of the `while`).
_sift_up_once(h, i) ==
    IF i > 0
    THEN IF h[i + 1] < h[parent(i) + 1]
         THEN Pass(swap(h, i, parent(i)), 1, swap_writes(i, parent(i)),
                   << Step("_sift_up", h, i, parent(i), {i}, {i, parent(i)}) >>)
         ELSE Pass(h, 0, {}, << Step("_sift_up", h, i, i, {i}, {i, parent(i)}) >>)
    ELSE Pass(h, 0, {}, << >>)

\* Mutant: the loop stops one level early (`while i > 1`), below the root.
RECURSIVE _sift_up_below_root(_, _)
_sift_up_below_root(h, i) ==
    IF i > 1
    THEN LET p == parent(i)
         IN  IF h[i + 1] < h[p + 1]
             THEN LET rest == _sift_up_below_root(swap(h, i, p), p)
                  IN  Pass(rest.a, rest.swaps + 1, rest.writes \cup swap_writes(i, p),
                           << Step("_sift_up", h, i, p, {i}, {i, p}) >> \o rest.trace)
             ELSE Pass(h, 0, {}, << Step("_sift_up", h, i, i, {i}, {i, p}) >>)
    ELSE Pass(h, 0, {}, << >>)

\* Mutant: the comparison is `<=`, so a node equal to its parent is swapped with it.
RECURSIVE _sift_up_swaps_equal(_, _)
_sift_up_swaps_equal(h, i) ==
    IF i > 0
    THEN LET p == parent(i)
         IN  IF h[i + 1] <= h[p + 1]
             THEN LET rest == _sift_up_swaps_equal(swap(h, i, p), p)
                  IN  Pass(rest.a, rest.swaps + 1, rest.writes \cup swap_writes(i, p),
                           << Step("_sift_up", h, i, p, {i}, {i, p}) >> \o rest.trace)
             ELSE Pass(h, 0, {}, << Step("_sift_up", h, i, i, {i}, {i, p}) >>)
    ELSE Pass(h, 0, {}, << >>)

\* Mutant: the loop condition is `i >= 0`, so the root is compared with its
\* "parent" too: parent(0) is -1 and a[-1] is Python's last element.
RECURSIVE _sift_up_from_root(_, _)
_sift_up_from_root(h, i) ==
    IF i >= 0
    THEN LET p == parent(i)
             at == IF p < 0 THEN Len(h) + p ELSE p
         IN  IF h[i + 1] < h[at + 1]
             THEN LET rest == _sift_up_from_root(swap(h, i, at), p)
                  IN  Pass(rest.a, rest.swaps + 1, rest.writes \cup swap_writes(i, at),
                           << Step("_sift_up", h, i, p, {i}, {i, p}) >> \o rest.trace)
             ELSE Pass(h, 0, {}, << Step("_sift_up", h, i, i, {i}, {i, p}) >>)
    ELSE Pass(h, 0, {}, << >>)

RECURSIVE _sift_up(_, _)
_sift_up(h, i) ==
    IF i > 0
    THEN LET p == parent(i)
         IN  IF h[i + 1] < h[p + 1]
             THEN LET rest == _sift_up(swap(h, i, p), p)
                  IN  Pass(rest.a, rest.swaps + 1, rest.writes \cup swap_writes(i, p),
                           << Step("_sift_up", h, i, p, {i}, {i, p}) >> \o rest.trace)
             ELSE Pass(h, 0, {}, << Step("_sift_up", h, i, i, {i}, {i, p}) >>)
    ELSE Pass(h, 0, {}, << >>)

\* Indices one iteration of _sift_down at node i subscripts the list with: each
\* comparison reads the child and the smallest so far (s1 after the first), and
\* the swap assigns both of its positions.
_sift_down_idx(n, i, l, r, s1, smallest) ==
    (IF l < n THEN {l, i} ELSE {}) \cup (IF r < n THEN {r, s1} ELSE {})
        \cup swap_writes(i, smallest)

\* Mutant: the right child is compared with the node, not with the smallest so far.
RECURSIVE _sift_down_right_vs_node(_, _)
_sift_down_right_vs_node(h, i) ==
    LET n == Len(h)
        l == left_child(i)
        r == right_child(i)
        s1 == IF l < n /\ h[l + 1] < h[i + 1] THEN l ELSE i
        smallest == IF r < n /\ h[r + 1] < h[i + 1] THEN r ELSE s1
        ev == Step("_sift_down", h, i, smallest, {}, _sift_down_idx(n, i, l, r, i, smallest))
    IN  IF smallest # i
        THEN LET rest == _sift_down_right_vs_node(swap(h, i, smallest), smallest)
             IN  Pass(rest.a, rest.swaps + 1, rest.writes \cup swap_writes(i, smallest),
                      << ev >> \o rest.trace)
        ELSE Pass(h, 0, {}, << ev >>)

\* Mutant: the right child is compared with `<=`, so of two equal children the
\* right one is taken.
RECURSIVE _sift_down_right_bias(_, _)
_sift_down_right_bias(h, i) ==
    LET n == Len(h)
        l == left_child(i)
        r == right_child(i)
        s1 == IF l < n /\ h[l + 1] < h[i + 1] THEN l ELSE i
        smallest == IF r < n /\ h[r + 1] <= h[s1 + 1] THEN r ELSE s1
        ev == Step("_sift_down", h, i, smallest, {}, _sift_down_idx(n, i, l, r, s1, smallest))
    IN  IF smallest # i
        THEN LET rest == _sift_down_right_bias(swap(h, i, smallest), smallest)
             IN  Pass(rest.a, rest.swaps + 1, rest.writes \cup swap_writes(i, smallest),
                      << ev >> \o rest.trace)
        ELSE Pass(h, 0, {}, << ev >>)

RECURSIVE _sift_down(_, _)
_sift_down(h, i) ==
    LET n == Len(h)
        l == left_child(i)
        r == right_child(i)
        s1 == IF l < n /\ h[l + 1] < h[i + 1] THEN l ELSE i
        smallest == IF r < n /\ h[r + 1] < h[s1 + 1] THEN r ELSE s1
        ev == Step("_sift_down", h, i, smallest, {}, _sift_down_idx(n, i, l, r, s1, smallest))
    IN  IF smallest # i
        THEN LET rest == _sift_down(swap(h, i, smallest), smallest)
             IN  Pass(rest.a, rest.swaps + 1, rest.writes \cup swap_writes(i, smallest),
                      << ev >> \o rest.trace)
        ELSE Pass(h, 0, {}, << ev >>)

\* The scan of _is_valid_heap as one step. Node i is reached when no node before
\* it failed; there a[i] and a[l] are read when l < n, and a[i] and a[r] when
\* r < n and the left comparison did not return False.
_is_valid_heap_step(h) ==
    LET n == Len(h)
        leftFails(i) == left_child(i) < n /\ ~(h[i + 1] <= h[left_child(i) + 1])
        rightFails(i) == right_child(i) < n /\ ~(h[i + 1] <= h[right_child(i) + 1])
        scanned == {i \in 0..(n - 1) :
                       \A j \in 0..(i - 1) : ~leftFails(j) /\ ~rightFails(j)}
        reads(i) == (IF left_child(i) < n THEN {i, left_child(i)} ELSE {})
                        \cup (IF right_child(i) < n /\ ~leftFails(i)
                              THEN {i, right_child(i)} ELSE {})
    IN  Step("_is_valid_heap", h, 0, 0, {}, UNION {reads(i) : i \in scanned})

\* What a public call did: the list it leaves, its result, the exception it raised
\* ("none" when it returned), the number of _sift_up and _sift_down invocations it
\* made, the indices k it assigned with a[k] = ... , and its steps in order.
Call(h, ret, raised, nUp, nDown, writes, trace) ==
    [a |-> h, ret |-> ret, raised |-> raised, nUp |-> nUp, nDown |-> nDown,
     writes |-> writes, trace |-> trace]

add(h, x) ==
    LET h1 == Append(h, x)
        up == _sift_up(h1, Len(h1) - 1)
        ok == _is_valid_heap(up.a)
    IN  Call(up.a, None, IF ok THEN "none" ELSE "AssertionError", 1, 0, up.writes,
             up.trace \o << _is_valid_heap_step(up.a) >>)

\* Mutant: the emptiness guard is missing, so a[0] on an empty list raises IndexError.
peek_unguarded(h) ==
    IF Len(h) = 0
    THEN Call(h, None, "IndexError", 0, 0, {}, << Step("peek", h, 0, 0, {}, {0}) >>)
    ELSE Call(h, Some(h[1]), "none", 0, 0, {}, << Step("peek", h, 0, 0, {}, {0}) >>)

\* Mutant: the root is taken out of the list (a.pop(0)) instead of being read.
peek_pops(h) ==
    IF is_empty(h)
    THEN Call(h, None, "none", 0, 0, {}, << >>)
    ELSE Call(Tail(h), Some(h[1]), "none", 0, 0, {}, << Step("peek", h, 0, 0, {}, {0}) >>)

peek(h) ==
    Call(h, IF is_empty(h) THEN None ELSE Some(h[1]), "none", 0, 0, {},
         IF is_empty(h) THEN << >> ELSE << Step("peek", h, 0, 0, {}, {0}) >>)

\* Mutants of remove, one slip each:
\*   "returns_last"    returns `last` in place of `min_val`;
\*   "no_pop"          reads the last element (a[-1]) without popping it;
\*   "sift_always"     only the assignment is under `if self.a:`, the sift-down is not;
\*   "write_then_pop"  copies the last element to the root before popping it.
remove_slip(h, slip) ==
    IF is_empty(h)
    THEN Call(h, None, "none", 0, 0, {}, << >>)
    ELSE LET min_val == h[1]
             lastv == h[Len(h)]
             first == IF slip = "write_then_pop" THEN [h EXCEPT ![1] = lastv] ELSE h
             popped == IF slip = "no_pop" THEN first ELSE SubSeq(first, 1, Len(first) - 1)
             sifted == Len(popped) > 0 \/ slip = "sift_always"
             down == IF sifted
                     THEN _sift_down(IF Len(popped) > 0
                                     THEN [popped EXCEPT ![1] = lastv]
                                     ELSE popped, 0)
                     ELSE Pass(popped, 0, {}, << >>)
             ok == _is_valid_heap(down.a)
         IN  Call(down.a,
                  IF ~ok THEN None
                  ELSE IF slip = "returns_last" THEN Some(lastv) ELSE Some(min_val),
                  IF ok THEN "none" ELSE "AssertionError",
                  0,
                  IF sifted THEN 1 ELSE 0,
                  (IF Len(popped) > 0 \/ slip = "write_then_pop" THEN {0} ELSE {})
                      \cup down.writes,
                  << Step("remove", h, 0, 0, {}, {0}) >>
                      \o (IF Len(popped) > 0 \/ slip = "write_then_pop"
                          THEN << Step("remove", popped, 0, 0, {}, {0}) >> ELSE << >>)
                      \o down.trace \o << _is_valid_heap_step(down.a) >>)

remove_returns_last(h) == remove_slip(h, "returns_last")

remove_no_pop(h) == remove_slip(h, "no_pop")

remove_sift_always(h) == remove_slip(h, "sift_always")

remove_write_then_pop(h) == remove_slip(h, "write_then_pop")

\* Mutant: the assignment a[0] = last is not under `if self.a:`, so after the only
\* element is popped it subscripts an empty list and raises IndexError.
remove_assign_unguarded(h) ==
    IF is_empty(h)
    THEN Call(h, None, "none", 0, 0, {}, << >>)
    ELSE LET min_val == h[1]
             lastv == h[Len(h)]
             popped == SubSeq(h, 1, Len(h) - 1)
         IN  IF Len(popped) = 0
             THEN Call(popped, None, "IndexError", 0, 0, {},
                       << Step("remove", h, 0, 0, {}, {0}),
                          Step("remove", popped, 0, 0, {}, {0}) >>)
             ELSE LET down == _sift_down([popped EXCEPT ![1] = lastv], 0)
                      ok == _is_valid_heap(down.a)
                  IN  Call(down.a,
                           IF ok THEN Some(min_val) ELSE None,
                           IF ok THEN "none" ELSE "AssertionError",
                           0, 1, {0} \cup down.writes,
                           << Step("remove", h, 0, 0, {}, {0}),
                              Step("remove", popped, 0, 0, {}, {0}) >>
                               \o down.trace \o << _is_valid_heap_step(down.a) >>)

remove(h) ==
    IF is_empty(h)
    THEN Call(h, None, "none", 0, 0, {}, << >>)
    ELSE LET min_val == h[1]
             lastv == h[Len(h)]
             popped == SubSeq(h, 1, Len(h) - 1)
             down == IF Len(popped) > 0
                     THEN _sift_down([popped EXCEPT ![1] = lastv], 0)
                     ELSE Pass(popped, 0, {}, << >>)
             ok == _is_valid_heap(down.a)
         IN  Call(down.a,
                  IF ok THEN Some(min_val) ELSE None,
                  IF ok THEN "none" ELSE "AssertionError",
                  0,
                  IF Len(popped) > 0 THEN 1 ELSE 0,
                  IF Len(popped) > 0 THEN {0} \cup down.writes ELSE {},
                  << Step("remove", h, 0, 0, {}, {0}) >>
                      \o (IF Len(popped) > 0
                          THEN << Step("remove", popped, 0, 0, {}, {0}) >> ELSE << >>)
                      \o down.trace \o << _is_valid_heap_step(down.a) >>)

make_heap == << >>

\* ---------- the state machine ----------

BagOf(s) == [v \in {s[k] : k \in 1..Len(s)} |-> Cardinality({k \in 1..Len(s) : s[k] = v})]

\* The last two of the results in s followed by r.
LastTwo(s, r) == IF Len(s) = 2 THEN <<s[2], r>> ELSE Append(s, r)

Init ==
    /\ a = make_heap
    /\ added = EmptyBag
    /\ removed = EmptyBag
    /\ out = << >>
    /\ peeked = << >>
    /\ last = [op |-> "new", arg |-> None, ret |-> None, raised |-> "none",
               nUp |-> 0, nDown |-> 0, writes |-> {}, trace |-> << >>]

Record(op, arg, c) ==
    [op |-> op, arg |-> arg, ret |-> c.ret, raised |-> c.raised,
     nUp |-> c.nUp, nDown |-> c.nDown, writes |-> c.writes, trace |-> c.trace]

Add(x) ==
    /\ BagCardinality(added) < MaxAdds
    /\ LET c == add(a, x)
       IN  /\ a' = c.a
           /\ last' = Record("add", Some(x), c)
    /\ added' = added (+) SetToBag({x})
    /\ out' = << >>
    /\ peeked' = << >>
    /\ UNCHANGED removed

Peek ==
    /\ LET c == peek(a)
       IN  /\ a' = c.a
           /\ last' = Record("peek", None, c)
           /\ peeked' = LastTwo(peeked, c.ret)
    /\ UNCHANGED <<added, removed, out>>

IsEmpty ==
    /\ last' = Record("is_empty", None, Call(a, Some(is_empty(a)), "none", 0, 0, {}, << >>))
    /\ UNCHANGED <<a, added, removed, out, peeked>>

Remove ==
    /\ LET c == remove(a)
       IN  /\ a' = c.a
           /\ last' = Record("remove", None, c)
           /\ removed' = IF c.ret # None THEN removed (+) SetToBag({c.ret[1]}) ELSE removed
           /\ out' = IF c.ret # None THEN Append(out, c.ret[1]) ELSE out
    /\ peeked' = << >>
    /\ UNCHANGED added

Next ==
    \/ \E x \in Values : Add(x)
    \/ Peek
    \/ IsEmpty
    \/ Remove

Spec == Init /\ [][Next]_vars

\* ---------- properties ----------

\* The elements of a list, and the smallest of a non-empty list.
Elems(s) == {s[k] : k \in 1..Len(s)}

Minimum(s) == CHOOSE m \in Elems(s) : \A e \in Elems(s) : m <= e

NonDecreasing(s) == \A k \in 1..(Len(s) - 1) : s[k] <= s[k + 1]

\* v repeated n times.
Copies(v, n) == [k \in 1..n |-> v]

\* The ascending sort of a bag of Values: each value, smallest first, as often as it occurs.
RECURSIVE SortedFrom(_, _)
SortedFrom(b, v) ==
    IF v > MaxVal
    THEN << >>
    ELSE Copies(v, CopiesIn(v, b)) \o SortedFrom(b, v + 1)

Sorted(b) == SortedFrom(b, 1)

\* Every successful remove of the run came after its last add: the run is a sequence
\* of adds followed by removes.
AddsThenRemoves == removed = BagOf(out)

\* C1: after every public call the min-heap property holds (a[i] <= a[c] for every
\* index i and child c in {2i+1, 2i+2} with c < len(a)), and the assertion at the
\* end of add and of remove has not failed.
C1_HeapInvariant ==
    /\ \A i \in 0..(Len(a) - 1) :
           \A c \in {2 * i + 1, 2 * i + 2} :
               c < Len(a) => a[i + 1] <= a[c + 1]
    /\ last.raised # "AssertionError"

\* C1 witness: a remove whose sift-down went two levels down left a heap of depth 3.
C1_Witness ==
    /\ last.op = "remove"
    /\ Len(a) >= 5
    /\ Cardinality(last.writes) >= 3
    /\ a[1] < a[Len(a)]

\* C2: when adds on a new heap are followed by removes, the removed values are
\* non-decreasing: each is <= the one removed next.
C2_RemovedNonDecreasing == AddsThenRemoves => NonDecreasing(out)

\* C2 witness: a heap built from values with duplicates has been drained to empty.
C2_Witness ==
    /\ AddsThenRemoves
    /\ a = << >>
    /\ Len(out) >= 5
    /\ out[1] < out[Len(out)]
    /\ \E k \in 1..(Len(out) - 1) : out[k] = out[k + 1]

\* C3: in a non-empty heap the element at index 0 is <= every stored element, and
\* peek returns the minimum of the elements held.
C3_RootIsMinimum ==
    /\ a # << >> => \A k \in 1..Len(a) : a[1] <= a[k]
    /\ (last.op = "peek" /\ a # << >>) => last.ret = Some(Minimum(a))

\* C3 witness: peek on a heap that adds and removes have both changed.
C3_Witness ==
    /\ last.op = "peek"
    /\ Len(a) >= 3
    /\ BagCardinality(removed) >= 2
    /\ \E k \in 1..Len(a) : a[1] < a[k]
    /\ last.ret = Some(a[1])

\* C4: remove on a non-empty heap returns the minimum of the elements stored just
\* before the call, the value peek would have returned then.
C4_RemoveReturnsMinimum ==
    [][(last'.op = "remove" /\ a # << >>) =>
           /\ last'.ret = Some(Minimum(a))
           /\ last'.ret = peek(a).ret]_vars

\* C4 witness: a remove returned a value strictly below everything it left behind.
C4_Witness ==
    /\ last.op = "remove"
    /\ last.ret # None
    /\ Len(a) >= 3
    /\ last.ret[1] < a[1]

\* C5: add grows the list by exactly one, remove on a non-empty heap shrinks it by
\* exactly one, remove on an empty heap leaves it at zero; the count is the number
\* of adds minus the number of successful removes, and is_empty is true iff it is 0.
C5_CountExact ==
    [][/\ last'.op = "add" => Len(a') = Len(a) + 1
       /\ (last'.op = "remove" /\ a # << >>) => Len(a') = Len(a) - 1
       /\ (last'.op = "remove" /\ a = << >>) => Len(a') = 0
       /\ Len(a') = BagCardinality(added') - BagCardinality(removed')
       /\ last'.op = "is_empty" => (last'.ret = Some(TRUE) <=> Len(a') = 0)]_vars

\* C5 witness: is_empty answers false after interleaved adds and removes.
C5_Witness ==
    /\ last.op = "is_empty"
    /\ last.ret = Some(FALSE)
    /\ BagCardinality(added) >= 4
    /\ BagCardinality(removed) >= 2
    /\ Len(a) = BagCardinality(added) - BagCardinality(removed)

\* C6: on a heap with no elements peek and remove return None, raise nothing and
\* leave the heap empty and unchanged.
C6_EmptySignal ==
    [][(a = << >> /\ last'.op \in {"peek", "remove"}) =>
           /\ last'.ret = None
           /\ last'.raised = "none"
           /\ a' = << >>
           /\ added' = added /\ removed' = removed /\ out' = out]_vars

\* C6 witness: remove answered None on a heap that was filled and fully drained.
C6_Witness ==
    /\ last.op = "remove"
    /\ last.ret = None
    /\ last.raised = "none"
    /\ a = << >>
    /\ BagCardinality(removed) >= 3

\* C7: peek and is_empty leave the list as it was, and two peeks with no add or
\* remove between them return the same value.
C7_PeekIsPure ==
    [][/\ last'.op \in {"peek", "is_empty"} => a' = a
       /\ Len(peeked') = 2 => peeked'[1] = peeked'[2]]_vars

\* C7 witness: the second of two peeks in a row on a non-empty heap.
C7_Witness ==
    /\ last.op = "peek"
    /\ Len(peeked) = 2
    /\ Len(a) >= 3
    /\ peeked[2] = Some(a[1])

\* C8: the elements stored are exactly those added and not yet removed, as
\* multisets; draining a heap built from an input returns the ascending sort of it.
C8_NoElementLostOrDuplicated ==
    /\ BagOf(a) (+) removed = added
    /\ (a = << >> /\ AddsThenRemoves) => out = Sorted(added)

\* C8 witness: an input with duplicates has been drained into its sort.
C8_Witness ==
    /\ a = << >>
    /\ AddsThenRemoves
    /\ BagCardinality(added) >= 5
    /\ \E v \in Values : CopiesIn(v, added) >= 2
    /\ \E v, w \in Values : v # w /\ BagIn(v, added) /\ BagIn(w, added)
    /\ Len(out) = BagCardinality(added)

\* C9 as stated: every mutating call (an add, or a remove that took an element out)
\* makes exactly one rebalancing pass, one _sift_up or one _sift_down.
C9_ExactlyOnePass ==
    (last.op = "add" \/ (last.op = "remove" /\ last.ret # None)) =>
        last.nUp + last.nDown = 1

\* C9 amended: every add makes exactly one _sift_up and no _sift_down; every remove
\* makes no _sift_up and at most one _sift_down, exactly one when the heap held at
\* least two elements before the call and none when it held one or none.
C9_PassesPerCall ==
    [][/\ last'.op = "add" => (last'.nUp = 1 /\ last'.nDown = 0)
       /\ last'.op = "remove" =>
              /\ last'.nUp = 0
              /\ last'.nDown = (IF Len(a) >= 2 THEN 1 ELSE 0)]_vars

\* C9 witness: a remove took the only element out and made no pass at all.
C9_Witness ==
    /\ last.op = "remove"
    /\ last.ret # None
    /\ last.nUp + last.nDown = 0

\* C10: remove on a heap of exactly one element returns that element, makes no
\* sift-down, assigns nothing to index 0 and leaves the heap empty.
C10_RemoveOnlyElement ==
    [][(last'.op = "remove" /\ Len(a) = 1) =>
           /\ last'.ret = Some(a[1])
           /\ last'.raised = "none"
           /\ last'.nDown = 0
           /\ 0 \notin last'.writes
           /\ a' = << >>]_vars

\* C10 witness: the last element of a heap that held several has been removed.
C10_Witness ==
    /\ last.op = "remove"
    /\ last.ret # None
    /\ a = << >>
    /\ last.writes = {}
    /\ BagCardinality(removed) >= 2

\* The loop iterations of the last call's sift-up and sift-down, in order.
IsSiftUp(e) == e.fn = "_sift_up"

IsSiftDown(e) == e.fn = "_sift_down"

UpSteps == SelectSeq(last.trace, IsSiftUp)

DownSteps == SelectSeq(last.trace, IsSiftDown)

\* The children of node i that exist in a list of n elements.
Kids(i, n) == {c \in {2 * i + 1, 2 * i + 2} : c < n}

\* C11: a sift-down step swaps the node with a child only if that child is strictly
\* smaller than the node; the child taken is a minimum of the existing children;
\* of two equal children below the node the left one (2i+1) is taken; when the node
\* is <= all existing children the pass stops with no swap.
C11_SiftDownStep ==
    \A k \in 1..Len(DownSteps) :
        LET e == DownSteps[k]
            h == e.h
            i == e.i
            kids == Kids(i, Len(h))
        IN  /\ e.to # i =>
                  /\ e.to \in kids
                  /\ h[e.to + 1] < h[i + 1]
                  /\ \A c \in kids : h[e.to + 1] <= h[c + 1]
            /\ (2 * i + 2 < Len(h) /\ h[2 * i + 2] = h[2 * i + 3] /\ h[2 * i + 2] < h[i + 1])
                   => e.to = 2 * i + 1
            /\ (\A c \in kids : h[i + 1] <= h[c + 1]) => (e.to = i /\ k = Len(DownSteps))
            /\ e.to = i => k = Len(DownSteps)
            /\ (e.to # i /\ k < Len(DownSteps)) => DownSteps[k + 1].i = e.to

\* C11 witness: a sift-down step met two equal children below the node and took the left.
C11_Witness ==
    /\ last.op = "remove"
    /\ \E k \in 1..Len(DownSteps) :
           LET e == DownSteps[k]
           IN  /\ 2 * e.i + 2 < Len(e.h)
               /\ e.h[2 * e.i + 2] = e.h[2 * e.i + 3]
               /\ e.h[2 * e.i + 2] < e.h[e.i + 1]
               /\ e.to = 2 * e.i + 1

\* C12: during add(x) the new element moves up one level exactly when it is
\* strictly smaller than its parent; it ends at the root or under a parent <= x,
\* and an element equal to its parent is never swapped with it.
C12_SiftUpStep ==
    /\ \A k \in 1..Len(UpSteps) :
           LET e == UpSteps[k]
               h == e.h
               i == e.i
               p == (i - 1) \div 2
           IN  /\ i >= 1
               /\ (e.to = p) <=> (h[i + 1] < h[p + 1])
               /\ e.to # p => (e.to = i /\ k = Len(UpSteps))
               /\ h[i + 1] = h[p + 1] => e.to = i
               /\ k < Len(UpSteps) => UpSteps[k + 1].i = e.to
    /\ last.op = "add" =>
           LET x == last.arg[1]
               pos == IF UpSteps = << >> THEN Len(a) - 1 ELSE UpSteps[Len(UpSteps)].to
           IN  /\ UpSteps # << >> =>
                      (UpSteps[1].i = Len(a) - 1 /\ UpSteps[1].h[Len(a)] = x)
               /\ a[pos + 1] = x
               /\ pos = 0 \/ a[((pos - 1) \div 2) + 1] <= x

\* C12 witness: add of a value equal to the parent of the new slot, two levels
\* below the root, made one comparison and no swap.
C12_Witness ==
    /\ last.op = "add"
    /\ Len(a) >= 4
    /\ Len(UpSteps) = 1
    /\ UpSteps[1].to = UpSteps[1].i
    /\ a[Len(a)] = a[((Len(a) - 2) \div 2) + 1]
    /\ a[Len(a)] = last.arg[1]

\* floor(log2(n)) for n >= 1.
RECURSIVE FloorLog2(_)
FloorLog2(n) == IF n <= 1 THEN 0 ELSE 1 + FloorLog2(n \div 2)

\* The swaps of the last call's sift pass.
Swaps == Cardinality({k \in 1..Len(last.trace) :
                          /\ last.trace[k].fn \in {"_sift_up", "_sift_down"}
                          /\ last.trace[k].to # last.trace[k].i})

\* C13: every add and remove returns, its sift loop never having moved the node
\* back (up in sift-up, down and inside the list in sift-down), after at most
\* floor(log2(n)) + 1 iterations and at most floor(log2(n)) swaps for a heap of n
\* elements after the append or after the pop.
C13_SiftBounded ==
    last.op \in {"add", "remove"} =>
        /\ last.raised = "none"
        /\ \A k \in 1..Len(UpSteps) : UpSteps[k].to <= UpSteps[k].i /\ UpSteps[k].to >= 0
        /\ \A k \in 1..Len(DownSteps) :
               DownSteps[k].to >= DownSteps[k].i /\ DownSteps[k].to < Len(DownSteps[k].h)
        /\ IF Len(a) = 0
           THEN Swaps = 0 /\ UpSteps = << >> /\ DownSteps = << >>
           ELSE /\ Swaps <= FloorLog2(Len(a))
                /\ Len(UpSteps) + Len(DownSteps) <= FloorLog2(Len(a)) + 1

\* C13 witness: a sift-down that went the whole depth of the tree, two swaps.
C13_Witness ==
    /\ last.op = "remove"
    /\ Len(a) >= 4
    /\ Swaps = FloorLog2(Len(a))
    /\ Swaps = last.nDown + 1

\* C14: every call of parent() made by the heap has an argument >= 1.
C14_ParentNeverOfRoot ==
    \A k \in 1..Len(last.trace) : \A q \in last.trace[k].pargs : q >= 1

\* C14 witness: a sift-up that carried the new element from depth 2 to the root,
\* where the loop ended without asking for the root's parent.
C14_Witness ==
    /\ last.op = "add"
    /\ Len(UpSteps) = 2
    /\ UpSteps[2].to = 0
    /\ UpSteps[1].pargs \cup UpSteps[2].pargs = {UpSteps[1].i, UpSteps[2].i}

\* C15: every index the calls subscript the list with is within 0 .. len(a)-1 of
\* the list as it is at that moment.
C15_IndicesInRange ==
    /\ last.raised # "IndexError"
    /\ \A k \in 1..Len(last.trace) :
           \A j \in last.trace[k].idx : 0 <= j /\ j < Len(last.trace[k].h)

\* C15 witness: a sift-down step at a node whose right child index is exactly
\* len(a), one past the end, after a first swap.
C15_Witness ==
    /\ last.op = "remove"
    /\ Len(DownSteps) >= 2
    /\ \E k \in 2..Len(DownSteps) :
           /\ 2 * DownSteps[k].i + 2 = Len(DownSteps[k].h)
           /\ 2 * DownSteps[k].i + 1 \in DownSteps[k].idx

\* Bound of the index range the helpers are compared on.
MaxIndex == 12

\* C16: for every index i >= 0, left_child(i) = 2i+1, right_child(i) = 2i+2,
\* parent(left_child(i)) = parent(right_child(i)) = i, and distinct nodes never
\* share a child index.
C16_IndexHelpers ==
    \A i \in 0..(MaxIndex + Len(a)) :
        /\ left_child(i) = 2 * i + 1
        /\ right_child(i) = 2 * i + 2
        /\ parent(left_child(i)) = i
        /\ parent(right_child(i)) = i
        /\ \A j \in 0..(MaxIndex + Len(a)) :
               i # j => {left_child(i), right_child(i)}
                            \cap {left_child(j), right_child(j)} = {}

\* C16 witness: a heap of three levels, each of whose nodes below the root is the
\* left or the right child of its parent.
C16_Witness ==
    /\ Len(a) >= 6
    /\ last.op = "add"
    /\ \A c \in 1..(Len(a) - 1) : c \in {left_child(parent(c)), right_child(parent(c))}

====
